---- MODULE Spec2Model ----
(***************************************************************************)
(* Technical-indicator summarisation pipeline of A-Share-Advisor           *)
(* (src/tech_analysis.py): analyze_stock_data applied to one shared price  *)
(* series, with the pandas_ta indicators it calls.                         *)
(*                                                                         *)
(* Numbers.  The program works on float64; here a number is an integer     *)
(* count of 1/SCALE units (fixed point, rounded to nearest after every     *)
(* division), and NaN is one reserved integer outside the range of every   *)
(* value, compared the way IEEE NaN compares: every ordering test on it    *)
(* is false.                                                               *)
(*                                                                         *)
(* Library.  pandas_ta is modelled as release 0.3.14b0.  That release     *)
(* computes through TA-Lib when TA-Lib is importable and through pandas    *)
(* otherwise; which one is a property of the installation, so it is the    *)
(* variable talib, chosen once in Init.                                    *)
(*                                                                         *)
(* Two further parts of the program have their own specifications: the     *)
(* data fetcher with its retry and fallback (src/data_fetcher.py,          *)
(* SpecFetch) and the watchlist file (src/utils.py, SpecWatch).            *)
(***************************************************************************)
EXTENDS Integers, Sequences, FiniteSets, TLC

----------------------------------------------------------------------------
(* Bounds of the model *)

MaxCalls == 2        \* analyze_stock_data calls made on the shared series
MaxSlope == 1        \* Close drifts by -MaxSlope..MaxSlope half units per row
MaxAmp == 1          \* Close alternates by 0..MaxAmp units between rows
MaxProbe == 2        \* last-row values probed: 0..MaxProbe around each threshold
MaxFetchRows == 3    \* rows a data provider delivers for one request
MaxOps == 3          \* watchlist calls made in a row

\* Row counts of the input series: around every lookback of every profile.
RowCounts == {0, 1, 2, 5, 6, 7, 13, 16, 26, 60, 250}

\* Horizon tags passed by callers: the three profiles and unrecognised ones.
Tags == {"short", "mid", "long", "unknown", "", "Short"}

----------------------------------------------------------------------------
(* Numbers *)

SCALE == 1000
NaN == 0 - (SCALE * SCALE * SCALE)

BasePrice == 400 * SCALE
BaseVolume == 1000 * SCALE + (SCALE \div 2)

Gt(a, b) == a # NaN /\ b # NaN /\ a > b
Lt(a, b) == a # NaN /\ b # NaN /\ a < b
Sub(a, b) == IF a = NaN \/ b = NaN THEN NaN ELSE a - b

\* a / b rounded to the nearest integer (b > 0)
RoundDiv(a, b) == (2 * a + b) \div (2 * b)

\* a / b rounded half to even: the rounding of a float format specification
RoundHalfEven(a, b) ==
    LET q == a \div b
        r == a % b
    IN  IF 2 * r < b THEN q
        ELSE IF 2 * r > b THEN q + 1
        ELSE IF q % 2 = 0 THEN q ELSE q + 1

\* x[i] + ... + x[j], summed by halves
RECURSIVE Sum(_, _, _)
Sum(x, i, j) ==
    IF i > j THEN 0
    ELSE IF i = j THEN x[i]
    ELSE LET m == (i + j) \div 2 IN Sum(x, i, m) + Sum(x, m + 1, j)

Mean(x, i, j) == RoundDiv(Sum(x, i, j), j - i + 1)

Max3(a, b, c) ==
    IF a >= b /\ a >= c THEN a ELSE IF b >= c THEN b ELSE c

----------------------------------------------------------------------------
(* State *)

VARIABLES
    STRATEGY_PARAMS,  \* the module-level profile table
    df,               \* the shared DataFrame the callers pass in
    orig,             \* the OHLCV series as the data fetcher delivered it
    talib,            \* TRUE iff TA-Lib is importable in this installation
    out,              \* outcome of the latest analyze_stock_data call
    calls,            \* number of calls made so far
    probe,            \* last-row values handed to the classification rules
    fetch,            \* the get_ashare_data call in progress, with its log
    wl                \* watchlist.json and the watchlist calls made on it

vars == <<STRATEGY_PARAMS, df, orig, talib, out, calls, probe, fetch, wl>>

----------------------------------------------------------------------------
(* The profile table and its lookup *)

ProfileTable ==
    [short |-> [macd |-> [fast |-> 6, slow |-> 13, signal |-> 4],
                rsi |-> [length |-> 6],
                ema_fast |-> 5, ema_slow |-> 10,
                desc |-> "Aggressive/Short-term"],
     mid   |-> [macd |-> [fast |-> 12, slow |-> 26, signal |-> 9],
                rsi |-> [length |-> 14],
                ema_fast |-> 20, ema_slow |-> 60,
                desc |-> "Standard/Swing-trade"],
     long  |-> [macd |-> [fast |-> 24, slow |-> 52, signal |-> 18],
                rsi |-> [length |-> 21],
                ema_fast |-> 60, ema_slow |-> 250,
                desc |-> "Conservative/Long-term"]]

\* Variant: the tag is matched without regard to case
GetParamsCaseless(table, period_type) ==
    IF period_type \in DOMAIN table THEN table[period_type]
    ELSE IF period_type = "Short" THEN table["short"]
    ELSE table["mid"]

\* STRATEGY_PARAMS.get(period_type, STRATEGY_PARAMS['mid'])
GetParams(table, period_type) ==
    IF period_type \in DOMAIN table THEN table[period_type] ELSE table["mid"]

----------------------------------------------------------------------------
(* Column names: the f-strings of analyze_stock_data, which are also the   *)
(* names pandas_ta gives the columns it appends.                           *)

Digits(n) ==
    CASE n = 4 -> "4" [] n = 5 -> "5" [] n = 6 -> "6" [] n = 9 -> "9"
      [] n = 10 -> "10" [] n = 12 -> "12" [] n = 13 -> "13" [] n = 14 -> "14"
      [] n = 18 -> "18" [] n = 20 -> "20" [] n = 21 -> "21" [] n = 24 -> "24"
      [] n = 26 -> "26" [] n = 52 -> "52" [] n = 60 -> "60" [] n = 250 -> "250"

EmaName(length) == <<"EMA", Digits(length)>>
\* Variant: the RSI column is named without its length
RsiNameNoLength(length) == <<"RSI">>

RsiName(length) == <<"RSI", Digits(length)>>
MacdName(kind, p) == <<kind, Digits(p.fast), Digits(p.slow), Digits(p.signal)>>

----------------------------------------------------------------------------
(* pandas_ta indicators *)

\* verify_series: the series, or None when it is shorter than min_length
verify_series(x, min_length) == Len(x) >= min_length

\* Series.ewm(adjust=False).mean() with alpha = k_num / k_den over rows
\* lo..hi, continued from the values acc holds for rows 1..lo-1; pandas
\* skips the update when the average already equals the observation.
\* (The rows are walked in order; the range is split in halves, the first
\* half evaluated before the second, only to keep the evaluation shallow.)
EwmStep(prev, cur, k_num, k_den) ==
    IF prev = cur THEN prev ELSE prev + RoundDiv(k_num * (cur - prev), k_den)

RECURSIVE EwmRange(_, _, _, _, _, _)
EwmRange(x, k_num, k_den, lo, hi, acc) ==
    IF lo > hi THEN acc
    ELSE IF lo = hi
    THEN Append(acc, EwmStep(acc[lo - 1], x[lo], k_num, k_den))
    ELSE LET m == (lo + hi) \div 2
             left == EwmRange(x, k_num, k_den, lo, m, acc)
         IN  IF Len(left) = m THEN EwmRange(x, k_num, k_den, m + 1, hi, left)
             ELSE left

\* ema(close, length) with sma=True: undefined before row length, the
\* simple mean of the first length rows at row length, alpha = 2/(length+1)
\* afterwards.  Needs Len(x) >= length.  TA-Lib's EMA is seeded the same way.
ema(x, length) ==
    EwmRange(x, 2, length + 1, length + 1, Len(x),
             [i \in 1..length |-> IF i < length THEN NaN ELSE Mean(x, 1, length)])

\* The three MACD series over all rows, or raised = TRUE for the TypeError
\* of `macd - None`.
\* pandas path: both averages start at their own lengths, the signal line is
\* ema(signal) of the defined part of the MACD line, and that ema returns
\* None when fewer than `signal` MACD values are defined.
MacdPandas(x, fast, slow, signal) ==
    LET n == Len(x)
        fastma == ema(x, fast)
        slowma == ema(x, slow)
        line == [i \in 1..n |-> Sub(fastma[i], slowma[i])]
        tail == SubSeq(line, slow, n)
    IN  IF ~verify_series(tail, signal)
        THEN [raised |-> TRUE, macd |-> line, hist |-> <<>>, sig |-> <<>>]
        ELSE LET s == ema(tail, signal)
                 sigma == [i \in 1..n |-> IF i < slow THEN NaN ELSE s[i - slow + 1]]
             IN  [raised |-> FALSE, macd |-> line,
                  hist |-> [i \in 1..n |-> Sub(line[i], sigma[i])],
                  sig |-> sigma]

\* TA-Lib path: the fast average is seeded on the `fast` rows that end at row
\* `slow`, and all three outputs are undefined before row slow + signal - 1
\* (every row, when the series is shorter than that).
MacdTalib(x, fast, slow, signal) ==
    LET n == Len(x)
        first == slow + signal - 1
        allNaN == [i \in 1..n |-> NaN]
    IN  IF n < first
        THEN [raised |-> FALSE, macd |-> allNaN, hist |-> allNaN, sig |-> allNaN]
        ELSE LET slowma == ema(x, slow)
                 fastma == EwmRange(x, 2, fast + 1, slow + 1, n,
                              [i \in 1..slow |->
                                  IF i < slow THEN NaN
                                  ELSE Mean(x, slow - fast + 1, slow)])
                 line == [i \in 1..n |-> Sub(fastma[i], slowma[i])]
                 s == ema(SubSeq(line, slow, n), signal)
             IN  [raised |-> FALSE,
                  macd |-> [i \in 1..n |-> IF i < first THEN NaN ELSE line[i]],
                  hist |-> [i \in 1..n |-> IF i < first THEN NaN
                                           ELSE Sub(line[i], s[i - slow + 1])],
                  sig |-> [i \in 1..n |-> IF i < first THEN NaN
                                          ELSE s[i - slow + 1]]]

\* macd(close, fast, slow, signal); needs Len(x) >= max(fast, slow, signal)
macd(x, fast, slow, signal, lib) ==
    LET f == IF slow < fast THEN slow ELSE fast
        s == IF slow < fast THEN fast ELSE slow
    IN  IF lib THEN MacdTalib(x, f, s, signal) ELSE MacdPandas(x, f, s, signal)

\* 100 * P / (P + Q) for a gain average P and a loss average Q; `zero` is
\* what the build yields when both are zero.
RsiValue(P, Q, zero) ==
    LET D == P + Q
        q == (100 * P) \div D
        r == (100 * P) % D
    IN  IF D = 0 THEN zero ELSE q * SCALE + RoundDiv(r * SCALE, D)

Gain(x, i) == IF x[i] > x[i - 1] THEN x[i] - x[i - 1] ELSE 0
Loss(x, i) == IF x[i] < x[i - 1] THEN x[i - 1] - x[i] ELSE 0

\* One row of RSI; st holds the two running averages and the rows so far.
\* pandas path: rma = ewm(alpha=1/length, min_periods=length).mean() of the
\* gains and of the losses of close.diff(); the two averages share their
\* normalising weight, so only the weighted sums P and Q are kept.  The
\* first difference is undefined, so RSI is defined from row length + 1 on,
\* and is 0/0 = NaN where no price has moved.
RsiPandasStep(x, length, i, st) ==
    IF i = 1 THEN [P |-> 0, Q |-> 0, acc |-> <<NaN>>]
    ELSE LET P2 == Gain(x, i) + RoundDiv((length - 1) * st.P, length)
             Q2 == Loss(x, i) + RoundDiv((length - 1) * st.Q, length)
             v == IF i <= length THEN NaN ELSE RsiValue(P2, Q2, NaN)
         IN  [P |-> P2, Q |-> Q2, acc |-> Append(st.acc, v)]

\* TA-Lib path: Wilder's averages, seeded at row length + 1 by the simple
\* mean of the first length gains and losses; 0 where no price has moved.
RsiTalibStep(x, length, i, st) ==
    IF i = 1 THEN [P |-> 0, Q |-> 0, acc |-> <<NaN>>]
    ELSE IF i <= length
    THEN [P |-> st.P + Gain(x, i), Q |-> st.Q + Loss(x, i),
          acc |-> Append(st.acc, NaN)]
    ELSE LET P2 == IF i = length + 1
                   THEN RoundDiv(st.P + Gain(x, i), length)
                   ELSE RoundDiv(st.P * (length - 1) + Gain(x, i), length)
             Q2 == IF i = length + 1
                   THEN RoundDiv(st.Q + Loss(x, i), length)
                   ELSE RoundDiv(st.Q * (length - 1) + Loss(x, i), length)
         IN  [P |-> P2, Q |-> Q2, acc |-> Append(st.acc, RsiValue(P2, Q2, 0))]

RECURSIVE RsiRange(_, _, _, _, _, _)
RsiRange(x, length, lo, hi, st, lib) ==
    IF lo > hi THEN st
    ELSE IF lo = hi
    THEN IF lib THEN RsiTalibStep(x, length, lo, st)
         ELSE RsiPandasStep(x, length, lo, st)
    ELSE LET m == (lo + hi) \div 2
             left == RsiRange(x, length, lo, m, st, lib)
         IN  IF Len(left.acc) = m THEN RsiRange(x, length, m + 1, hi, left, lib)
             ELSE left

\* rsi(close, length); needs Len(x) >= length
rsi(x, length, lib) ==
    RsiRange(x, length, 1, Len(x), [P |-> 0, Q |-> 0, acc |-> <<>>], lib).acc

----------------------------------------------------------------------------
(* The DataFrame accessor df.ta.<indicator>(..., append=True) *)

\* df[name] = series: adds the column, or replaces the column of that name
AppendCol(d, name, series) ==
    [d EXCEPT !.cols = (name :> series) @@ d.cols]

\* df.ta.macd(fast, slow, signal, append=True); raised = the call raised
ta_macd(d, p, lib) ==
    IF ~verify_series(d.Close, Max3(p.fast, p.slow, p.signal))
    THEN [raised |-> FALSE, df |-> d]
    ELSE LET m == macd(d.Close, p.fast, p.slow, p.signal, lib)
         IN  IF m.raised THEN [raised |-> TRUE, df |-> d]
             ELSE [raised |-> FALSE,
                   df |-> AppendCol(AppendCol(AppendCol(d,
                              MacdName("MACD", p), m.macd),
                              MacdName("MACDh", p), m.hist),
                              MacdName("MACDs", p), m.sig)]

\* df.ta.rsi(length, append=True)
ta_rsi(d, length, lib) ==
    IF ~verify_series(d.Close, length) THEN d
    ELSE AppendCol(d, RsiName(length), rsi(d.Close, length, lib))

\* Variant: the rows on which the new average is undefined are dropped
ta_emaDropna(d, length) ==
    IF ~verify_series(d.Close, length) THEN d
    ELSE LET n == Len(d.Close)
             a == AppendCol(d, EmaName(length), ema(d.Close, length))
             keep(x) == SubSeq(x, length, n)
         IN  [index |-> keep(a.index), Open |-> keep(a.Open), High |-> keep(a.High),
              Low |-> keep(a.Low), Close |-> keep(a.Close), Volume |-> keep(a.Volume),
              cols |-> [c \in DOMAIN a.cols |-> keep(a.cols[c])]]

\* df.ta.ema(length, append=True)
ta_ema(d, length) ==
    IF ~verify_series(d.Close, length) THEN d
    ELSE AppendCol(d, EmaName(length), ema(d.Close, length))

----------------------------------------------------------------------------
(* The summary reducer of analyze_stock_data *)

\* Variant: an absent column reads as missing, whatever the default
RowGetNoDefault(d, row, col, default) ==
    IF col \in DOMAIN d.cols THEN d.cols[col][row] ELSE NaN

\* last_row.get(col, default): the default only when the column is absent
RowGet(d, row, col, default) ==
    IF col \in DOMAIN d.cols THEN d.cols[col][row] ELSE default

\* Variant: the thresholds 70 and 30 belong to the outer bands
RsiStatusNonStrict(rsi_val) ==
    IF rsi_val # NaN /\ rsi_val >= 70 * SCALE THEN "OVERBOUGHT (High Risk)"
    ELSE IF rsi_val # NaN /\ rsi_val <= 30 * SCALE THEN "OVERSOLD (Potential Bounce)"
    ELSE "NEUTRAL"

RsiStatus(rsi_val) ==
    IF Gt(rsi_val, 70 * SCALE) THEN "OVERBOUGHT (High Risk)"
    ELSE IF Lt(rsi_val, 30 * SCALE) THEN "OVERSOLD (Potential Bounce)"
    ELSE "NEUTRAL"

\* Variant: the strong trends accept equal values
TrendNonStrict(price, ema_fast_val, ema_slow_val) ==
    LET Ge(a, b) == a # NaN /\ b # NaN /\ a >= b
    IN  IF Ge(price, ema_fast_val) /\ Ge(ema_fast_val, ema_slow_val)
        THEN "STRONG UPTREND (Price > Fast > Slow)"
        ELSE IF Ge(ema_fast_val, price) /\ Ge(ema_slow_val, ema_fast_val)
        THEN "STRONG DOWNTREND (Price < Fast < Slow)"
        ELSE IF Gt(price, ema_slow_val)
        THEN "MODERATE UPTREND (Above Slow MA)"
        ELSE "SIDEWAYS"

Trend(price, ema_fast_val, ema_slow_val) ==
    IF Gt(price, ema_fast_val) /\ Gt(ema_fast_val, ema_slow_val)
    THEN "STRONG UPTREND (Price > Fast > Slow)"
    ELSE IF Lt(price, ema_fast_val) /\ Lt(ema_fast_val, ema_slow_val)
    THEN "STRONG DOWNTREND (Price < Fast < Slow)"
    ELSE IF Gt(price, ema_slow_val)
    THEN "MODERATE UPTREND (Above Slow MA)"
    ELSE "SIDEWAYS"

\* Variant: a histogram of exactly 0 counts as bullish
MomentumNonStrict(macd_hist) ==
    IF macd_hist # NaN /\ macd_hist >= 0 THEN "BULLISH" ELSE "BEARISH"

Momentum(macd_hist) == IF Gt(macd_hist, 0) THEN "BULLISH" ELSE "BEARISH"

\* f"{v:.<decimals>f}": v in units of 1/unit-th of SCALE, "nan" for NaN
Fmt(v, unit) == IF v = NaN THEN NaN ELSE RoundHalfEven(v, unit)

\* Timestamp.date(): timestamps count hours
Date(ts) == ts \div 24

NoCall == [status |-> "none", error |-> "", period_type |-> "", result |-> <<>>]
Raised(error, period_type) ==
    [status |-> "error", error |-> error, period_type |-> period_type, result |-> <<>>]

\* Steps 3 to 5 of analyze_stock_data on the frame the indicators were
\* appended to (at least 2 rows).
Summarize(d, params, period_type) ==
    LET n == Len(d.Close)
        price == d.Close[n]
        macd_hist == RowGet(d, n, MacdName("MACDh", params.macd), 0)
        rsi_val == RowGet(d, n, RsiName(params.rsi.length), 50 * SCALE)
        ema_fast_val == RowGet(d, n, EmaName(params.ema_fast), 0)
        ema_slow_val == RowGet(d, n, EmaName(params.ema_slow), 0)
        rsi_status == RsiStatus(rsi_val)
        trend == Trend(price, ema_fast_val, ema_slow_val)
        momentum == Momentum(macd_hist)
    IN  [status |-> "ok", error |-> "", period_type |-> period_type,
         result |-> <<
           [summary_text |->
              [desc |-> params.desc,
               date |-> Date(d.index[n]),
               close |-> Fmt(price, SCALE \div 100),
               trend |-> trend,
               ema_fast_label |-> Digits(params.ema_fast),
               ema_fast |-> Fmt(ema_fast_val, SCALE \div 100),
               ema_slow_label |-> Digits(params.ema_slow),
               ema_slow |-> Fmt(ema_slow_val, SCALE \div 100),
               momentum |-> momentum,
               hist |-> Fmt(macd_hist, SCALE \div 1000),
               rsi |-> Fmt(rsi_val, SCALE \div 100),
               rsi_status |-> rsi_status,
               volume |-> Fmt(d.Volume[n], SCALE)],
            raw_data |->
              [price |-> price, rsi |-> rsi_val,
               macd_hist |-> macd_hist, trend |-> trend]] >>]

\* Variant: the previous row falls back to the last row of a 1-row frame
InBoundsClamped(d, k) == Len(d.Close) >= 1

\* df.iloc[-k] is a row of the frame (IndexError otherwise)
InBounds(d, k) == Len(d.Close) >= k

\* analyze_stock_data(df, period_type): the frame after the call and the
\* call's outcome (the summary, or the exception that left the function).
analyze_stock_data(table, d, period_type, lib) ==
    LET params == GetParams(table, period_type)
        m == ta_macd(d, params.macd, lib)
        d2 == ta_rsi(m.df, params.rsi.length, lib)
        d3 == ta_ema(d2, params.ema_fast)
        d4 == ta_ema(d3, params.ema_slow)
    IN  IF m.raised
        THEN [df |-> d, out |-> Raised("TypeError", period_type)]
        ELSE IF ~InBounds(d4, 1)       \* last_row = df.iloc[-1]
        THEN [df |-> d4, out |-> Raised("IndexError", period_type)]
        ELSE IF ~InBounds(d4, 2)       \* prev_row = df.iloc[-2]
        THEN [df |-> d4, out |-> Raised("IndexError", period_type)]
        ELSE [df |-> d4, out |-> Summarize(d4, params, period_type)]

----------------------------------------------------------------------------
(* Input series and the state machine *)

\* Close of row i: a drift of slope half units per row plus an alternation
\* of amp units
ClosePrice(i, slope, amp) ==
    BasePrice + slope * i * (SCALE \div 2) + amp * SCALE * (i % 2)

\* A cleaned series as get_ashare_data returns it: ascending timestamps,
\* numeric columns, Volume > 0, no indicator column yet.
Frame(n, slope, amp) ==
    [index  |-> [i \in 1..n |-> 24 * i],
     Open   |-> [i \in 1..n |-> ClosePrice(i - 1, slope, amp)],
     High   |-> [i \in 1..n |-> ClosePrice(i, slope, amp) + SCALE],
     Low    |-> [i \in 1..n |-> ClosePrice(i, slope, amp) - SCALE],
     Close  |-> [i \in 1..n |-> ClosePrice(i, slope, amp)],
     Volume |-> [i \in 1..n |-> BaseVolume + i * SCALE],
     cols   |-> <<>>]

\* No get_ashare_data call has been made
NoFetch ==
    [pc |-> "idle", symbol |-> <<>>, period |-> "", attempt |-> 0,
     log |-> <<>>, df |-> <<>>, result |-> <<>>]

\* Stock codes and names entered into the watchlist
WatchSymbols == {"600519", "000001"}
WatchNames == {"Moutai", "PingAn"}

\* watchlist.json does not exist and no watchlist call has been made
NoWatch ==
    [file |-> [exists |-> FALSE, items |-> <<>>],
     initial |-> <<>>,
     prev |-> [exists |-> FALSE, items |-> <<>>],
     last |-> [s \in WatchSymbols |-> [op |-> "none", name |-> ""]],
     call |-> [op |-> "none", symbol |-> "", name |-> ""],
     ret |-> <<>>,
     ops |-> 0]

NoProbe ==
    [pc |-> "idle", price |-> 0, ema_fast_val |-> 0, ema_slow_val |-> 0,
     macd_hist |-> 0, rsi_val |-> 0, trend |-> "", momentum |-> "", rsi_status |-> ""]

Init ==
    /\ STRATEGY_PARAMS = ProfileTable
    /\ talib \in BOOLEAN
    /\ \E n \in RowCounts, slope \in (0 - MaxSlope)..MaxSlope, amp \in 0..MaxAmp :
          df = Frame(n, slope, amp)
    /\ orig = df
    /\ out = NoCall
    /\ calls = 0
    /\ probe = NoProbe
    /\ fetch = NoFetch
    /\ wl = NoWatch

\* The call with STRATEGY_PARAMS.setdefault(period_type, ...) in place of
\* STRATEGY_PARAMS.get: an unknown tag is entered into the table
AnalyzeSetdefault(period_type) ==
    /\ calls < MaxCalls
    /\ LET r == analyze_stock_data(STRATEGY_PARAMS, df, period_type, talib)
       IN  /\ df' = r.df
           /\ out' = r.out
    /\ calls' = calls + 1
    /\ STRATEGY_PARAMS' =
          IF period_type \in DOMAIN STRATEGY_PARAMS
          THEN STRATEGY_PARAMS
          ELSE (period_type :> STRATEGY_PARAMS["mid"]) @@ STRATEGY_PARAMS
    /\ UNCHANGED <<orig, talib, probe, fetch, wl>>

\* One call analyze_stock_data(df, period_type) on the shared frame
Analyze(period_type) ==
    /\ calls < MaxCalls
    /\ LET r == analyze_stock_data(STRATEGY_PARAMS, df, period_type, talib)
       IN  /\ df' = r.df
           /\ out' = r.out
    /\ calls' = calls + 1
    /\ UNCHANGED <<STRATEGY_PARAMS, orig, talib, probe, fetch, wl>>

Next == \E period_type \in Tags : Analyze(period_type)

Spec == Init /\ [][Next]_vars

----------------------------------------------------------------------------
(* The classification rules on their own: every combination of last-row    *)
(* values around the thresholds, NaN included.                             *)

LevelVals == {NaN} \cup {v * SCALE : v \in 0..MaxProbe}
HistVals == {NaN} \cup ((0 - MaxProbe)..MaxProbe)
RsiVals ==
    {NaN, 0, 50 * SCALE, 100 * SCALE}
      \cup {30 * SCALE + e : e \in (0 - MaxProbe)..MaxProbe}
      \cup {70 * SCALE + e : e \in (0 - MaxProbe)..MaxProbe}

InitClassify ==
    /\ STRATEGY_PARAMS = ProfileTable
    /\ talib = FALSE
    /\ df = Frame(0, 0, 0)
    /\ orig = df
    /\ out = NoCall
    /\ calls = 0
    /\ \E p \in LevelVals, f \in LevelVals, s \in LevelVals,
          h \in HistVals, r \in RsiVals :
          probe = [NoProbe EXCEPT !.pc = "read", !.price = p,
                                  !.ema_fast_val = f, !.ema_slow_val = s,
                                  !.macd_hist = h, !.rsi_val = r]
    /\ fetch = NoFetch
    /\ wl = NoWatch

\* Step 4 of analyze_stock_data on the values read from the last row
Classify ==
    /\ probe.pc = "read"
    /\ probe' = [probe EXCEPT
                   !.pc = "done",
                   !.rsi_status = RsiStatus(probe.rsi_val),
                   !.trend = Trend(probe.price, probe.ema_fast_val, probe.ema_slow_val),
                   !.momentum = Momentum(probe.macd_hist)]
    /\ UNCHANGED <<STRATEGY_PARAMS, df, orig, talib, out, calls, fetch, wl>>

NextClassify == Classify

SpecClassify == InitClassify /\ [][NextClassify]_vars

----------------------------------------------------------------------------
(* Data fetcher (src/data_fetcher.py): one get_ashare_data call under its  *)
(* retry decorator.  The two providers are the environment: each request   *)
(* either raises or delivers rows, in any order, volumes included.         *)

\* stop_after_attempt(3)
MaxAttempts == 3

\* Bar periods asked for; only 'daily' is served by the fallback provider
Periods == {"daily", "weekly"}

\* Cleaned stock codes as digit sequences: Shanghai, Shenzhen, Beijing
Symbols == {<<6, 0, 0, 5, 1, 9>>, <<0, 0, 0, 0, 0, 1>>, <<8, 3, 0, 7, 9, 9>>}

\* Dates as the providers write them, in calendar order
DateStrings == <<"2024-01-02", "2024-01-03", "2024-01-04", "2024-01-05">>

\* pd.to_datetime of a provider date: its position in the calendar
to_datetime(s) == CHOOSE i \in 1..Len(DateStrings) : DateStrings[i] = s

\* Volumes as the primary provider delivers them (numbers; 0 on a suspended day)
PrimaryVolumes == {0, 125000}

\* Volumes as the fallback provider delivers them (strings, possibly empty)
FallbackVolumes == {"", "0", "125000"}

\* pd.to_numeric(s, errors='coerce') of a fallback field
to_numeric(s) ==
    CASE s = "0" -> 0
      [] s = "125000" -> 125000
      [] OTHER -> NaN

\* What a provider can deliver: up to MaxFetchRows rows, one per date, in any order
Deliveries(volumes) ==
    UNION {{rows \in [1..k -> [timestamp : {DateStrings[i] : i \in 1..Len(DateStrings)},
                               Volume : volumes]] :
              \A i \in 1..k : \A j \in 1..k :
                  i # j => rows[i].timestamp # rows[j].timestamp}
           : k \in 0..MaxFetchRows}

\* A provider request raises (network, server) or delivers rows
Responses(volumes) ==
    {[raised |-> TRUE, rows |-> <<>>]}
      \cup {[raised |-> FALSE, rows |-> rows] : rows \in Deliveries(volumes)}

\* _get_ashare_data_primary on the provider's response
get_ashare_data_primary(resp) ==
    IF resp.raised \/ resp.rows = <<>>
    THEN [raised |-> TRUE, df |-> <<>>]
    ELSE [raised |-> FALSE,
          df |-> [i \in 1..Len(resp.rows) |->
                    [timestamp |-> to_datetime(resp.rows[i].timestamp),
                     Volume |-> resp.rows[i].Volume]]]

\* _get_baostock_data_fallback on the provider's response
get_baostock_data_fallback(clean_symbol, resp) ==
    IF clean_symbol[1] \notin {6, 0, 3}
    THEN [raised |-> TRUE, df |-> <<>>]
    ELSE IF resp.raised \/ resp.rows = <<>>
    THEN [raised |-> TRUE, df |-> <<>>]
    ELSE [raised |-> FALSE,
          df |-> [i \in 1..Len(resp.rows) |->
                    [timestamp |-> to_datetime(resp.rows[i].timestamp),
                     Volume |-> to_numeric(resp.rows[i].Volume)]]]

\* Where the except branch of get_ashare_data goes with the primary's exception
OnPrimaryErrorAnyPeriod(period) == "fallback"

OnPrimaryError(period) == IF period = "daily" THEN "fallback" ELSE "raise"

\* df.set_index('timestamp').sort_index()
RECURSIVE sort_index(_)
sort_index(rows) ==
    IF rows = <<>>
    THEN <<>>
    ELSE LET r == rows[Len(rows)]
             s == sort_index(SubSeq(rows, 1, Len(rows) - 1))
             k == Cardinality({i \in 1..Len(s) : s[i].timestamp <= r.timestamp})
         IN  SubSeq(s, 1, k) \o <<r>> \o SubSeq(s, k + 1, Len(s))

VolumeNonZero(r) == r.Volume # 0

VolumePositive(r) == Gt(r.Volume, 0)

\* The common cleaning with the filter df['Volume'] != 0
cleanNonZero(d) == SelectSeq(sort_index(d), VolumeNonZero)

\* The common cleaning of get_ashare_data: sort by date, keep Volume > 0
clean(d) == SelectSeq(sort_index(d), VolumePositive)

\* What the call prints when it enters a provider, with what came back
LogEntry(provider, r, resp) ==
    [attempt |-> fetch.attempt, provider |-> provider, raised |-> r.raised,
     rows |-> IF r.raised THEN <<>> ELSE resp.rows]

InitFetch ==
    /\ STRATEGY_PARAMS = ProfileTable
    /\ talib = FALSE
    /\ df = Frame(0, 0, 0)
    /\ orig = df
    /\ out = NoCall
    /\ calls = 0
    /\ probe = NoProbe
    /\ fetch = NoFetch
    /\ wl = NoWatch

\* get_ashare_data(symbol, period) is called: the first attempt begins
GetAshareData(symbol, period) ==
    /\ fetch.pc = "idle"
    /\ fetch' = [fetch EXCEPT !.pc = "primary", !.symbol = symbol,
                              !.period = period, !.attempt = 1]
    /\ UNCHANGED <<STRATEGY_PARAMS, df, orig, talib, out, calls, probe, wl>>

\* The try block: the primary provider is asked
Primary ==
    /\ fetch.pc = "primary"
    /\ \E resp \in Responses(PrimaryVolumes) :
          LET r == get_ashare_data_primary(resp)
          IN  fetch' = [fetch EXCEPT
                          !.log = Append(@, LogEntry("primary", r, resp)),
                          !.df = r.df,
                          !.pc = IF r.raised THEN OnPrimaryError(fetch.period)
                                 ELSE "clean"]
    /\ UNCHANGED <<STRATEGY_PARAMS, df, orig, talib, out, calls, probe, wl>>

\* The except block for period 'daily': the fallback provider is asked
Fallback ==
    /\ fetch.pc = "fallback"
    /\ \E resp \in Responses(FallbackVolumes) :
          LET r == get_baostock_data_fallback(fetch.symbol, resp)
          IN  fetch' = [fetch EXCEPT
                          !.log = Append(@, LogEntry("fallback", r, resp)),
                          !.df = r.df,
                          !.pc = IF r.raised THEN "raise" ELSE "clean"]
    /\ UNCHANGED <<STRATEGY_PARAMS, df, orig, talib, out, calls, probe, wl>>

\* A provider succeeded: the common cleaning, and the series is returned
Clean ==
    /\ fetch.pc = "clean"
    /\ fetch' = [fetch EXCEPT !.result = clean(fetch.df), !.pc = "done"]
    /\ UNCHANGED <<STRATEGY_PARAMS, df, orig, talib, out, calls, probe, wl>>

\* The attempt raised and the decorator starts another one
Retry ==
    /\ fetch.pc = "raise"
    /\ fetch.attempt < MaxAttempts
    /\ fetch' = [fetch EXCEPT !.attempt = @ + 1, !.pc = "primary", !.df = <<>>]
    /\ UNCHANGED <<STRATEGY_PARAMS, df, orig, talib, out, calls, probe, wl>>

\* The last attempt raised: the decorator raises RetryError to the caller
GiveUp ==
    /\ fetch.pc = "raise"
    /\ fetch.attempt >= MaxAttempts
    /\ fetch' = [fetch EXCEPT !.pc = "error"]
    /\ UNCHANGED <<STRATEGY_PARAMS, df, orig, talib, out, calls, probe, wl>>

NextFetch ==
    \/ \E symbol \in Symbols, period \in Periods : GetAshareData(symbol, period)
    \/ Primary
    \/ Fallback
    \/ Clean
    \/ Retry
    \/ GiveUp

SpecFetch == InitFetch /\ [][NextFetch]_vars

----------------------------------------------------------------------------
(* Watchlist (src/utils.py): add_to_watchlist and remove_from_watchlist on *)
(* watchlist.json, called one after the other.  The file holds a JSON list *)
(* of {symbol, name} objects of strings, which json.dump and json.load     *)
(* carry unchanged; reads and writes of the file succeed.                  *)

\* Duplicate-free watchlists the file can hold at the start
WatchLists ==
    UNION {{l \in [1..k -> [symbol : WatchSymbols, name : WatchNames]] :
              \A i \in 1..k : \A j \in 1..k : i # j => l[i].symbol # l[j].symbol}
           : k \in 0..Cardinality(WatchSymbols)}

load_watchlist(file) == IF ~file.exists THEN <<>> ELSE file.items

save_watchlist(watchlist) == [exists |-> TRUE, items |-> watchlist]

\* add_to_watchlist without the search for an existing entry
add_to_watchlistAppend(file, symbol, name) ==
    LET watchlist == load_watchlist(file)
    IN  [file |-> save_watchlist(Append(watchlist, [symbol |-> symbol, name |-> name])),
         ret |-> <<TRUE, "added", name>>]

\* add_to_watchlist(symbol, name) on the file: the file afterwards and the
\* returned pair (the message by its kind and its argument)
add_to_watchlist(file, symbol, name) ==
    LET watchlist == load_watchlist(file)
        hits == {i \in 1..Len(watchlist) : watchlist[i].symbol = symbol}
    IN  IF hits # {}
        THEN LET i == CHOOSE h \in hits : \A g \in hits : h <= g
             IN  [file |-> save_watchlist([watchlist EXCEPT ![i].name = name]),
                  ret |-> <<TRUE, "updated", name>>]
        ELSE [file |-> save_watchlist(Append(watchlist,
                                             [symbol |-> symbol, name |-> name])),
              ret |-> <<TRUE, "added", name>>]

\* remove_from_watchlist(symbol) on the file
remove_from_watchlist(file, symbol) ==
    LET watchlist == load_watchlist(file)
        new_list == SelectSeq(watchlist, LAMBDA item : item.symbol # symbol)
    IN  IF Len(new_list) = Len(watchlist)
        THEN [file |-> file, ret |-> <<FALSE, "not found", symbol>>]
        ELSE [file |-> save_watchlist(new_list), ret |-> <<TRUE, "removed", symbol>>]

InitWatch ==
    /\ STRATEGY_PARAMS = ProfileTable
    /\ talib = FALSE
    /\ df = Frame(0, 0, 0)
    /\ orig = df
    /\ out = NoCall
    /\ calls = 0
    /\ probe = NoProbe
    /\ fetch = NoFetch
    /\ \E file \in {NoWatch.file} \cup {save_watchlist(l) : l \in WatchLists} :
          wl = [NoWatch EXCEPT !.file = file, !.prev = file,
                               !.initial = load_watchlist(file)]

Add(symbol, name) ==
    /\ wl.ops < MaxOps
    /\ LET r == add_to_watchlist(wl.file, symbol, name)
       IN  wl' = [wl EXCEPT !.file = r.file, !.prev = wl.file, !.ret = r.ret,
                            !.last[symbol] = [op |-> "add", name |-> name],
                            !.call = [op |-> "add", symbol |-> symbol, name |-> name],
                            !.ops = @ + 1]
    /\ UNCHANGED <<STRATEGY_PARAMS, df, orig, talib, out, calls, probe, fetch>>

Remove(symbol) ==
    /\ wl.ops < MaxOps
    /\ LET r == remove_from_watchlist(wl.file, symbol)
       IN  wl' = [wl EXCEPT !.file = r.file, !.prev = wl.file, !.ret = r.ret,
                            !.last[symbol] = [op |-> "remove", name |-> ""],
                            !.call = [op |-> "remove", symbol |-> symbol, name |-> ""],
                            !.ops = @ + 1]
    /\ UNCHANGED <<STRATEGY_PARAMS, df, orig, talib, out, calls, probe, fetch>>

NextWatch ==
    \/ \E symbol \in WatchSymbols, name \in WatchNames : Add(symbol, name)
    \/ \E symbol \in WatchSymbols : Remove(symbol)

SpecWatch == InitWatch /\ [][NextWatch]_vars

----------------------------------------------------------------------------
(* Properties *)

KnownTags == {"short", "mid", "long"}

StrongUp == "STRONG UPTREND (Price > Fast > Slow)"
StrongDown == "STRONG DOWNTREND (Price < Fast < Slow)"
Moderate == "MODERATE UPTREND (Above Slow MA)"
Sideways == "SIDEWAYS"

Rows == Len(orig.Close)
Called == out.status # "none"
Ok == out.status = "ok"
Summary == out.result[1].summary_text
Raw == out.result[1].raw_data
CalledParams == GetParams(ProfileTable, out.period_type)

\* The columns a profile's indicators are named after
ProfileColumns(params) ==
    {MacdName("MACD", params.macd), MacdName("MACDh", params.macd),
     MacdName("MACDs", params.macd), RsiName(params.rsi.length),
     EmaName(params.ema_fast), EmaName(params.ema_slow)}

\* The value of column col at the last row is undefined (absent, or NaN)
UndefinedAtLastRow(col) ==
    col \notin DOMAIN df.cols \/ df.cols[col][Len(df.Close)] = NaN

\* C1: a call with a tag other than 'short', 'mid', 'long' on a series of at
\* least 2 rows ends exactly as the call with tag 'mid' on the same series
\* does: the same outcome (a summary, or the same exception), the same
\* summary_text and raw_data, the same frame afterwards.
C1_UnknownTagReadsAsMid ==
    [][(calls' = calls + 1 /\ out'.period_type \notin KnownTags /\ Len(df.Close) >= 2)
         => LET r == analyze_stock_data(STRATEGY_PARAMS, df, "mid", talib)
            IN  /\ out'.status = r.out.status
                /\ out'.error = r.out.error
                /\ out'.result = r.out.result
                /\ df' = r.df]_vars

\* a differently cased tag has produced the summary of the 'mid' profile on
\* a series long enough for every 'mid' indicator
C1_Witness ==
    /\ Ok /\ out.period_type = "Short" /\ Rows >= 60
    /\ Summary.desc = "Standard/Swing-trade"
    /\ Summary.ema_slow_label = "60"
    /\ Raw.rsi # NaN /\ Raw.rsi # 50 * SCALE

\* C2: the trend label is the first match of STRONG UPTREND (Close > fast
\* and fast > slow), STRONG DOWNTREND (Close < fast and fast < slow),
\* MODERATE UPTREND (Close > slow), SIDEWAYS; exactly one of the four labels
\* is produced, and no equality among the values gives a STRONG label.
C2_TrendFirstMatch ==
    probe.pc = "done" =>
        LET p == probe.price
            f == probe.ema_fast_val
            s == probe.ema_slow_val
            up == Gt(p, f) /\ Gt(f, s)
            down == Lt(p, f) /\ Lt(f, s)
        IN  /\ probe.trend \in {StrongUp, StrongDown, Moderate, Sideways}
            /\ (probe.trend = StrongUp) <=> up
            /\ (probe.trend = StrongDown) <=> (~up /\ down)
            /\ (probe.trend = Moderate) <=> (~up /\ ~down /\ Gt(p, s))
            /\ (probe.trend = Sideways) <=> (~up /\ ~down /\ ~Gt(p, s))
            /\ (p = f \/ f = s) => probe.trend \notin {StrongUp, StrongDown}

\* Close equal to the fast EMA, both above the slow EMA: MODERATE UPTREND
C2_Witness ==
    /\ probe.pc = "done"
    /\ probe.price # NaN /\ probe.price = probe.ema_fast_val
    /\ Gt(probe.ema_fast_val, probe.ema_slow_val)
    /\ probe.trend = Moderate

\* C3: on a series of at least 2 rows every call returns a summary in which
\* an indicator that is undefined at the last row - its column absent, or
\* present with an undefined last value - reads as its default (RSI 50,
\* histogram 0), so raw_data.rsi and raw_data.macd_hist are defined numbers.
C3_UndefinedReadsAsDefault ==
    (Called /\ Rows >= 2) =>
        /\ Ok
        /\ Raw.rsi # NaN
        /\ Raw.macd_hist # NaN
        /\ UndefinedAtLastRow(RsiName(CalledParams.rsi.length))
              => Raw.rsi = 50 * SCALE
        /\ UndefinedAtLastRow(MacdName("MACDh", CalledParams.macd))
              => Raw.macd_hist = 0

\* C4: on a series of 0 rows or 1 row every call, under any tag, ends in an
\* error and returns no summary; no row and no indicator column is added.
C4_TooShortIsAnError ==
    (Called /\ Rows < 2) =>
        /\ out.status = "error"
        /\ out.error = "IndexError"
        /\ out.result = <<>>
        /\ DOMAIN df.cols = {}
        /\ df.Close = orig.Close
        /\ df.index = orig.index

\* a call on a 1-row series has ended in the error
C4_Witness == out.status = "error" /\ Rows = 1 /\ calls = 1

\* C5: every call on the shared series, whatever calls came before it,
\* ends as the same call on a fresh copy of the original series does: the
\* same outcome, summary_text and raw_data.
C5_SharedSeriesReadsAsFresh ==
    Called =>
        out = analyze_stock_data(STRATEGY_PARAMS, orig, out.period_type, talib).out

\* 'long' has run after 'mid' on one series: the EMA_60 column 'mid' left
\* behind is the fast EMA that 'long' reads
C5_Witness ==
    /\ Ok /\ calls = 2 /\ out.period_type = "long" /\ Rows >= 250
    /\ {EmaName(20), EmaName(60), EmaName(250)} \subseteq DOMAIN df.cols
    /\ Summary.ema_fast_label = "60"
    /\ Summary.ema_fast # 0

\* C6: every call leaves the index, Open, High, Low, Close and Volume of the
\* series as they were; it keeps every column it found, with its values, and
\* adds only columns named after the lengths of the call's profile, aligned
\* with the rows; a call that returns a summary on a series with at least
\* slow-EMA-length rows leaves both EMA columns of its profile.
C6_OnlyProfileColumnsAdded ==
    [][calls' = calls + 1 =>
         LET params == GetParams(ProfileTable, out'.period_type)
         IN  /\ df'.index = df.index
             /\ df'.Open = df.Open /\ df'.High = df.High /\ df'.Low = df.Low
             /\ df'.Close = df.Close /\ df'.Volume = df.Volume
             /\ DOMAIN df.cols \subseteq DOMAIN df'.cols
             /\ \A c \in DOMAIN df.cols : df'.cols[c] = df.cols[c]
             /\ (DOMAIN df'.cols \ DOMAIN df.cols) \subseteq ProfileColumns(params)
             /\ \A c \in DOMAIN df'.cols : Len(df'.cols[c]) = Len(df.Close)
             /\ (out'.status = "ok" /\ Len(df.Close) >= params.ema_slow)
                   => {EmaName(params.ema_fast), EmaName(params.ema_slow)}
                         \subseteq DOMAIN df'.cols]_vars

\* 'short' and then 'long' on one series: four distinct EMA columns beside
\* the raw columns as delivered
C6_Witness ==
    /\ Ok /\ calls = 2 /\ out.period_type = "long"
    /\ {EmaName(5), EmaName(10), EmaName(60), EmaName(250)} \subseteq DOMAIN df.cols
    /\ df.cols[EmaName(5)] # df.cols[EmaName(60)]
    /\ df.cols[EmaName(10)] # df.cols[EmaName(250)]
    /\ df.Close = orig.Close /\ df.Volume = orig.Volume /\ df.index = orig.index

\* C7: on a series of at least 2 rows but fewer than the profile's slow EMA
\* length, with Close > 0 on the last row, the call returns a summary and
\* the trend is MODERATE UPTREND or SIDEWAYS, never a STRONG label.
C7_ShortSeriesNeverStrong ==
    (Called /\ Rows >= 2 /\ Rows < CalledParams.ema_slow /\ orig.Close[Rows] > 0) =>
        /\ Ok
        /\ Raw.trend \in {Moderate, Sideways}

\* C8: on a series of exactly 2 rows with positive Close every profile
\* returns a summary whose indicators all read as their defaults: rsi 50
\* NEUTRAL, macd_hist 0 BEARISH, both EMA values 0.
C8_TwoRowsReadDefaults ==
    (Called /\ Rows = 2) =>
        /\ Ok
        /\ Raw.rsi = 50 * SCALE /\ Summary.rsi = 5000
        /\ Summary.rsi_status = "NEUTRAL"
        /\ Raw.macd_hist = 0 /\ Summary.hist = 0
        /\ Summary.momentum = "BEARISH"
        /\ Summary.ema_fast = 0 /\ Summary.ema_slow = 0
        /\ Raw.price = orig.Close[2]

\* each of the three profiles has summarised a 2-row series
C8_Witness ==
    /\ Ok /\ Rows = 2 /\ calls = 2 /\ out.period_type = "long"
    /\ orig.Close[1] > 0 /\ orig.Close[2] > orig.Close[1]

\* C9: momentum is BULLISH exactly when the MACD histogram read from the
\* last row is a number greater than 0; it is BEARISH for every other value,
\* for exactly 0 and for the default 0 of an absent histogram column.
C9_MomentumStrictlyPositive ==
    Ok =>
        /\ Summary.momentum \in {"BULLISH", "BEARISH"}
        /\ (Summary.momentum = "BULLISH")
              <=> (Raw.macd_hist # NaN /\ Raw.macd_hist > 0)
        /\ MacdName("MACDh", CalledParams.macd) \notin DOMAIN df.cols
              => (Raw.macd_hist = 0 /\ Summary.momentum = "BEARISH")

\* a histogram computed as exactly 0 (no default) reads BEARISH
C9_Witness ==
    /\ Ok
    /\ MacdName("MACDh", CalledParams.macd) \in DOMAIN df.cols
    /\ Raw.macd_hist = 0
    /\ Summary.momentum = "BEARISH"

\* C10: the RSI status is OVERBOUGHT exactly above 70, OVERSOLD exactly
\* below 30 and NEUTRAL on [30, 70], the ends included; one status per value.
C10_RsiStatusBands ==
    probe.pc = "done" =>
        LET r == probe.rsi_val
        IN  /\ probe.rsi_status \in
                  {"OVERBOUGHT (High Risk)", "OVERSOLD (Potential Bounce)", "NEUTRAL"}
            /\ (probe.rsi_status = "OVERBOUGHT (High Risk)")
                  <=> (r # NaN /\ r > 70 * SCALE)
            /\ (probe.rsi_status = "OVERSOLD (Potential Bounce)")
                  <=> (r # NaN /\ r < 30 * SCALE)
            /\ (r # NaN /\ r >= 30 * SCALE /\ r <= 70 * SCALE)
                  => probe.rsi_status = "NEUTRAL"

\* an RSI of exactly 70 reads NEUTRAL
C10_Witness ==
    probe.pc = "done" /\ probe.rsi_val = 70 * SCALE /\ probe.rsi_status = "NEUTRAL"

\* A profile with exactly these indicator lengths
ProfileIs(p, macd_fast, macd_slow, macd_signal, rsi_length, ema_fast, ema_slow) ==
    /\ p.macd = [fast |-> macd_fast, slow |-> macd_slow, signal |-> macd_signal]
    /\ p.rsi = [length |-> rsi_length]
    /\ p.ema_fast = ema_fast
    /\ p.ema_slow = ema_slow

\* C11: in every reachable state, initially and after any calls with any
\* tags, the profile table holds exactly the profiles short (MACD 6,13,4;
\* RSI 6; EMA 5/10), mid (MACD 12,26,9; RSI 14; EMA 20/60) and long (MACD
\* 24,52,18; RSI 21; EMA 60/250); in each, MACD fast < MACD slow and EMA
\* fast < EMA slow; no call changes the table.
C11_ProfileTableFixed ==
    /\ DOMAIN STRATEGY_PARAMS = {"short", "mid", "long"}
    /\ ProfileIs(STRATEGY_PARAMS["short"], 6, 13, 4, 6, 5, 10)
    /\ ProfileIs(STRATEGY_PARAMS["mid"], 12, 26, 9, 14, 20, 60)
    /\ ProfileIs(STRATEGY_PARAMS["long"], 24, 52, 18, 21, 60, 250)
    /\ \A t \in DOMAIN STRATEGY_PARAMS :
          /\ STRATEGY_PARAMS[t].macd.fast < STRATEGY_PARAMS[t].macd.slow
          /\ STRATEGY_PARAMS[t].ema_fast < STRATEGY_PARAMS[t].ema_slow

\* two calls have been made, the last one with an unknown tag that produced
\* a summary, and the table still has no entry for that tag
C11_Witness ==
    /\ calls = 2 /\ Ok /\ out.period_type = "unknown"
    /\ "unknown" \notin DOMAIN STRATEGY_PARAMS
    /\ STRATEGY_PARAMS["mid"].ema_slow = 60

StrictlyIncreasing(s) == \A i \in 1..(Len(s) - 1) : s[i] < s[i + 1]

\* C12: for every profile and every strictly increasing Close series with
\* at least as many rows as the profile's slow EMA length, the call gives a
\* last row with Close > fast EMA > slow EMA and the trend label STRONG
\* UPTREND.
C12_RisingSeriesStrongUptrend ==
    (Called /\ StrictlyIncreasing(orig.Close) /\ Rows >= CalledParams.ema_slow)
        => /\ Ok
           /\ Raw.trend = StrongUp
           /\ EmaName(CalledParams.ema_fast) \in DOMAIN df.cols
           /\ EmaName(CalledParams.ema_slow) \in DOMAIN df.cols
           /\ Gt(Raw.price, df.cols[EmaName(CalledParams.ema_fast)][Rows])
           /\ Gt(df.cols[EmaName(CalledParams.ema_fast)][Rows],
                 df.cols[EmaName(CalledParams.ema_slow)][Rows])

Constant(s) == \A i \in 1..Len(s) : s[i] = s[1]

\* Rows needed by every lookback of a profile: the MACD signal line, the
\* first RSI value, the slow EMA
AllLookbacks(params) ==
    Max3(params.macd.slow + params.macd.signal - 1,
         params.rsi.length + 1,
         params.ema_slow)

\* C13: for every profile and every constant Close series long enough for
\* all lookbacks, the MACD histogram at the last row is exactly 0, momentum
\* is BEARISH and the RSI status is NEUTRAL.
C13_FlatSeriesNeutral ==
    (Called /\ Constant(orig.Close) /\ Rows >= AllLookbacks(CalledParams))
        => /\ Ok
           /\ Raw.macd_hist = 0
           /\ Summary.momentum = "BEARISH"
           /\ Summary.rsi_status = "NEUTRAL"

\* The last entry of the call's log: the provider asked last
LastEntry == fetch.log[Len(fetch.log)]

\* A delivered row carries a positive volume (a number from the primary
\* provider, a non-empty string other than "0" from the fallback provider)
DeliveredPositive(provider, r) ==
    IF provider = "primary" THEN r.Volume > 0 ELSE r.Volume \notin {"", "0"}

\* C14: every series get_ashare_data returns, from the primary or the
\* fallback provider, has its rows in ascending timestamp order and every
\* row with Volume > 0: rows whose volume is zero or not a number (an empty
\* volume string from the fallback provider) are removed, and every row
\* with positive volume that the provider delivered is kept.
C14_ReturnedSeriesSortedPositive ==
    fetch.pc = "done" =>
        LET res == fetch.result
            kept == {r \in {LastEntry.rows[i] : i \in 1..Len(LastEntry.rows)} :
                        DeliveredPositive(LastEntry.provider, r)}
        IN  /\ \A i \in 1..(Len(res) - 1) : res[i].timestamp <= res[i + 1].timestamp
            /\ \A i \in 1..Len(res) : res[i].Volume # NaN /\ res[i].Volume > 0
            /\ {DateStrings[res[i].timestamp] : i \in 1..Len(res)}
                  = {r.timestamp : r \in kept}
            /\ Len(res) = Cardinality(kept)

\* the fallback provider delivered three rows out of order, one with an
\* empty volume, and the other two were returned
C14_Witness ==
    /\ fetch.pc = "done"
    /\ LastEntry.provider = "fallback"
    /\ Len(LastEntry.rows) = 3
    /\ LastEntry.rows[1].timestamp = "2024-01-05"
    /\ LastEntry.rows[2].Volume = ""
    /\ LastEntry.rows[3].timestamp = "2024-01-02"
    /\ Len(fetch.result) = 2
    /\ fetch.result[1].timestamp = 1 /\ fetch.result[2].timestamp = 4

\* C15: in every attempt the primary provider is asked first; the fallback
\* provider is asked only in an attempt in which the primary raised, only
\* for period 'daily', never after the primary succeeded; there are at most
\* 3 attempts; the call ends with the series of the first provider that
\* succeeded or, when the third attempt failed too, with an error and no
\* series.
C15_PrimaryFirstFallbackDailyThreeAttempts ==
    LET log == fetch.log
        n == Len(log)
    IN  /\ fetch.attempt <= 3
        /\ \A i \in 1..n :
              /\ log[i].attempt \in 1..3
              /\ log[i].attempt <= fetch.attempt
              /\ (i = 1 \/ log[i - 1].attempt # log[i].attempt)
                    => log[i].provider = "primary"
              /\ log[i].provider = "fallback"
                    => /\ i > 1
                       /\ log[i - 1].provider = "primary"
                       /\ log[i - 1].attempt = log[i].attempt
                       /\ log[i - 1].raised
                       /\ fetch.period = "daily"
              /\ i < n => log[i].raised
              /\ (i < n /\ log[i + 1].provider = "primary")
                    => log[i + 1].attempt = log[i].attempt + 1
        /\ fetch.pc = "done"
              => /\ n >= 1 /\ ~log[n].raised
                 /\ {DateStrings[fetch.result[i].timestamp] : i \in 1..Len(fetch.result)}
                       = {log[n].rows[i].timestamp :
                            i \in {j \in 1..Len(log[n].rows) :
                                     DeliveredPositive(log[n].provider, log[n].rows[j])}}
        /\ fetch.pc = "error"
              => /\ fetch.attempt = 3
                 /\ fetch.result = <<>>
                 /\ \A i \in 1..n : log[i].raised
                 /\ \A a \in 1..3 : \E i \in 1..n : log[i].attempt = a
        /\ fetch.pc \in {"idle", "primary", "fallback", "clean", "raise"}
              => fetch.result = <<>>

\* both providers failed in the first two attempts and the fallback
\* provider's rows were returned in the third
C15_Witness ==
    /\ fetch.pc = "done"
    /\ fetch.attempt = 3
    /\ Len(fetch.log) = 6
    /\ LastEntry.provider = "fallback"
    /\ Len(fetch.result) >= 1

\* The entries of a stored list for one symbol
Entries(items, symbol) == {i \in 1..Len(items) : items[i].symbol = symbol}

====
